---- MODULE Spec2Model ----
(***************************************************************************)
(* libdns provider for namesilo (provider.go).                             *)
(*                                                                         *)
(* The provider is stateless: GetRecords, AppendRecords, SetRecords and    *)
(* DeleteRecords each translate a call into HTTP requests to the           *)
(* registrar.  The model keeps the registrar's record list, the log of     *)
(* the HTTP requests issued, and the local variables of every running      *)
(* invocation.  One step is one HTTP request (with each of the outcomes    *)
(* the code distinguishes) or one iteration of a matching loop.            *)
(*                                                                         *)
(* Host names, zones and domains are sequences of one-character strings,   *)
(* so that strings.TrimSuffix is computed and not assumed.  Type, Value    *)
(* and ID are opaque strings; TTL is counted in whole seconds.             *)
(***************************************************************************)
EXTENDS Naturals, Integers, Sequences, FiniteSets, TLC

VARIABLES registrar, nextId, calls, inv

vars == <<registrar, nextId, calls, inv>>

(***************************************************************************)
(* Bounds of the model.                                                    *)
(***************************************************************************)
\* Longest record list the registrar holds in the initial state.
MaxCur == 2
\* Longest record list passed to AppendRecords, SetRecords or DeleteRecords.
MaxReq == 3

(***************************************************************************)
(* Strings.                                                                *)
(***************************************************************************)
HasSuffix(s, suffix) ==
    /\ Len(s) >= Len(suffix)
    /\ SubSeq(s, Len(s) - Len(suffix) + 1, Len(s)) = suffix

TrimSuffix(s, suffix) ==
    IF HasSuffix(s, suffix) THEN SubSeq(s, 1, Len(s) - Len(suffix)) ELSE s

getDomain(zone) == TrimSuffix(zone, <<".">>)

getHostname(zone, name) == TrimSuffix(TrimSuffix(name, zone), <<".">>)

(***************************************************************************)
(* Records (libdns.Record).                                                *)
(***************************************************************************)
Record(id, type, name, value, ttl, priority) ==
    [ID |-> id, Type |-> type, Name |-> name, Value |-> value,
     TTL |-> ttl, Priority |-> priority]

RemoveAt(s, i) == SubSeq(s, 1, i - 1) \o SubSeq(s, i + 1, Len(s))

\* The code's test for "currentRecord matches record" in SetRecords and
\* DeleteRecords.
Matches(zone, currentRecord, record) ==
    /\ currentRecord.Type = record.Type
    /\ getHostname(zone, currentRecord.Name) = getHostname(zone, record.Name)

\* The optional query parameters: absent (<<>>) when the field is zero.
rrttl(record) == IF record.TTL # 0 THEN <<record.TTL>> ELSE <<>>

rrdistance(record) == IF record.Priority # 0 THEN <<record.Priority>> ELSE <<>>

\* copy(dst, src) of Go: min(len(dst), len(src)) elements are copied and the
\* length of dst does not change.
GoCopy(dst, src) ==
    [j \in 1..Len(dst) |-> IF j <= Len(src) THEN src[j] ELSE dst[j]]

(***************************************************************************)
(* The matching loops.                                                     *)
(***************************************************************************)
\* SetScan binding the last match of the pool instead of the first.
SetScanLastMatch(zone, record, currentRecords, i) ==
    LET M == { j \in i..Len(currentRecords) : Matches(zone, currentRecords[j], record) }
        m == CHOOSE j \in M : \A l \in M : l <= j
    IN  IF i > Len(currentRecords)
        THEN [class |-> "none", pool |-> currentRecords, record |-> record]
        ELSE IF M # {}
        THEN [class |-> "update", pool |-> RemoveAt(currentRecords, m),
              record |-> [record EXCEPT !.ID = currentRecords[m].ID]]
        ELSE [class |-> "append", pool |-> currentRecords, record |-> record]

\* SetScan leaving the matched record in the pool.
SetScanNoConsume(zone, record, currentRecords, i) ==
    LET M == { j \in i..Len(currentRecords) : Matches(zone, currentRecords[j], record) }
        m == CHOOSE j \in M : \A l \in M : j <= l
    IN  IF i > Len(currentRecords)
        THEN [class |-> "none", pool |-> currentRecords, record |-> record]
        ELSE IF M # {}
        THEN [class |-> "update", pool |-> currentRecords,
              record |-> [record EXCEPT !.ID = currentRecords[m].ID]]
        ELSE [class |-> "append", pool |-> currentRecords, record |-> record]

\* The inner loop of SetRecords for one desired record without ID, from
\* index i (1-based) of the pool.  class is "update" (bound, pool shrunk),
\* "append" (the last index was reached without a match) or "none" (the
\* loop body never ran with i on the last index: the pool is empty).
RECURSIVE SetScan(_, _, _, _)
SetScan(zone, record, currentRecords, i) ==
    IF i > Len(currentRecords)
    THEN [class |-> "none", pool |-> currentRecords, record |-> record]
    ELSE IF Matches(zone, currentRecords[i], record)
    THEN [class |-> "update", pool |-> RemoveAt(currentRecords, i),
          record |-> [record EXCEPT !.ID = currentRecords[i].ID]]
    ELSE IF i = Len(currentRecords)
    THEN [class |-> "append", pool |-> currentRecords, record |-> record]
    ELSE SetScan(zone, record, currentRecords, i + 1)

\* SetClassifyOne putting a record that carries an ID on the create list.
SetClassifyOneIdAppended(zone, record, currentRecords) ==
    IF record.ID = ""
    THEN SetScan(zone, record, currentRecords, 1)
    ELSE [class |-> "append", pool |-> currentRecords, record |-> record]

\* One iteration of the outer loop of SetRecords.
SetClassifyOne(zone, record, currentRecords) ==
    IF record.ID = ""
    THEN SetScan(zone, record, currentRecords, 1)
    ELSE [class |-> "update", pool |-> currentRecords, record |-> record]

\* The inner loop of DeleteRecords for one requested record: the index of
\* the first match in the pool, 0 when there is none.
RECURSIVE DeleteScan(_, _, _, _)
DeleteScan(zone, record, currentRecords, i) ==
    IF i > Len(currentRecords) THEN 0
    ELSE IF Matches(zone, currentRecords[i], record) THEN i
    ELSE DeleteScan(zone, record, currentRecords, i + 1)

(***************************************************************************)
(* The registrar, as seen through the four API calls.  A request that      *)
(* fails leaves the registrar's records as they were.                      *)
(***************************************************************************)
SuccessCode == 300

\* What a request can end in: a reply with status 200 and code 300, a
\* transport error, a status other than 200, a body that does not decode,
\* a reply with status 200 and a code other than 300.
Outcomes == {"ok", "transport", "status", "decode", "code"}

\* The reply code the provider reads from the body.
ReplyCode(outcome) == IF outcome = "ok" THEN SuccessCode ELSE 0

HasId(reg, id) == \E j \in 1..Len(reg) : reg[j].ID = id

RegCreate(reg, id, type, host, value, ttl, distance) ==
    Append(reg, Record(id, type, host, value,
                       IF ttl = <<>> THEN 0 ELSE ttl[1],
                       IF distance = <<>> THEN 0 ELSE distance[1]))

RegUpdate(reg, id, host, value, ttl, distance) ==
    [j \in 1..Len(reg) |->
        IF reg[j].ID = id
        THEN [reg[j] EXCEPT !.Name = host, !.Value = value,
                            !.TTL = IF ttl = <<>> THEN @ ELSE ttl[1],
                            !.Priority = IF distance = <<>> THEN @ ELSE distance[1]]
        ELSE reg[j]]

RECURSIVE RegDelete(_, _)
RegDelete(reg, id) ==
    IF reg = <<>> THEN <<>>
    ELSE IF Head(reg).ID = id THEN RegDelete(Tail(reg), id)
    ELSE <<Head(reg)>> \o RegDelete(Tail(reg), id)

\* One entry of the request log.
Call(p, kind, domain, id, type, host, value, ttl, distance, outcome) ==
    [p |-> p, kind |-> kind, domain |-> domain, rrid |-> id, rrtype |-> type,
     rrhost |-> host, rrvalue |-> value, rrttl |-> ttl,
     rrdistance |-> distance, outcome |-> outcome]

(***************************************************************************)
(* Inputs.                                                                 *)
(***************************************************************************)
ZoneName == <<"z", ".", "c">>

Zones == {ZoneName, ZoneName \o <<".">>}

HostA == <<"a">>
HostB == <<"b">>

Fqdn(host) == host \o <<".">> \o ZoneName

\* The kinds of record the registrar lists in the initial state.
CurrentPool ==
    { Record("", "TXT", HostA, "v1", 3600, 0),
      Record("", "TXT", Fqdn(HostA), "v1", 3600, 0),
      Record("", "A", HostA, "v1", 7207, 0) }

\* The kinds of record a caller passes: without ID, and with the ID of a
\* record (SetRecords alone reads the ID).
IdLessPool ==
    { Record("", "TXT", Fqdn(HostA), "v2", 3600, 0),
      Record("", "TXT", HostA, "v2", 0, 0),
      Record("", "A", Fqdn(HostB), "v2", 3600, 10) }

RequestPool == IdLessPool \cup { Record("1", "TXT", HostA, "v2", 3600, 0) }

SeqsUpTo(S, n) == UNION { [1..m -> S] : m \in 0..n }

\* The registrar numbers its records.
WithIds(s) == [j \in 1..Len(s) |-> [s[j] EXCEPT !.ID = ToString(j)]]

InitialRegistrars == { WithIds(s) : s \in SeqsUpTo(CurrentPool, MaxCur) }

RequestLists == SeqsUpTo(IdLessPool, MaxReq)

DesiredLists == SeqsUpTo(RequestPool, MaxReq)

\* A caller may also pass back what the registrar lists, as it is or with
\* new values.
Relisted(reg) == { reg, [j \in 1..Len(reg) |-> [reg[j] EXCEPT !.Value = "v2"]] }

(***************************************************************************)
(* State of one invocation.                                                *)
(***************************************************************************)
Idle ==
    [op |-> "none", pc |-> "idle", zone |-> <<>>, records |-> <<>>,
     listing |-> <<>>, currentRecords |-> <<>>, k |-> 1,
     updateRecords |-> <<>>, appendRecords |-> <<>>,
     appendedRecords |-> <<>>, updatedRecords |-> <<>>,
     deleteRecords |-> <<>>, deletedRecords |-> <<>>,
     i |-> 1, result |-> <<>>, err |-> "none",
     before |-> <<>>, mark |-> 0, ctxDone |-> FALSE, returned |-> 0]

\* One caller at a time: every call is awaited before the next begins.
Procs == {1}

\* The number of calls a caller makes one after the other: main calls
\* DeleteRecords and then GetRecords.
SequentialCalls == 2

Init ==
    /\ registrar \in InitialRegistrars
    /\ nextId = Len(registrar) + 1
    /\ calls = <<>>
    /\ inv = [p \in Procs |-> Idle]

\* The records AppendRecords was called with.
AppendInput(s) == IF s.op = "Append" THEN s.records ELSE s.appendRecords

\* Failed returning, with the error, the records processed so far.
FailedPartial(s, outcome) ==
    [s EXCEPT !.pc = "done", !.err = outcome,
              !.result = s.appendedRecords \o s.updatedRecords \o s.deletedRecords]

\* return nil, err
Failed(s, outcome) ==
    [s EXCEPT !.pc = "done", !.result = <<>>, !.err = outcome]

(***************************************************************************)
(* Actions.                                                                *)
(***************************************************************************)
\* The locals of a method at its entry.  before and mark record, for the
\* properties, the registrar's records and the length of the request log at
\* that moment; ctxDone tells whether the caller's context is cancelled.
Entered(op, pc, zone, records) ==
    [Idle EXCEPT !.op = op, !.pc = pc, !.zone = zone, !.records = records,
                 !.before = registrar, !.mark = Len(calls)]

\* A caller invokes one of the four methods: its first call.
Start(p) ==
    /\ inv[p].pc = "idle"
    /\ inv[p].returned = 0
    /\ \E zone \in Zones :
          \/ inv' = [inv EXCEPT ![p] = Entered("List", "get", zone, <<>>)]
          \/ \E records \in RequestLists :
                inv' = [inv EXCEPT ![p] = Entered("Append", "append", zone, records)]
          \/ \E records \in DesiredLists \cup Relisted(registrar) :
                inv' = [inv EXCEPT ![p] = Entered("Set", "get", zone, records)]
          \/ \E records \in RequestLists :
                inv' = [inv EXCEPT ![p] = Entered("Delete", "get", zone, records)]
    /\ UNCHANGED <<registrar, nextId, calls>>

\* The call of p has returned without an error and the caller goes on to
\* its next call, with the same zone; on an error main ends the process
\* (log.Fatalln).  Provider keeps nothing from one call to the next.  The
\* log keeps the requests of the returned call until the next call is
\* entered.
Return(p) ==
    /\ inv[p].pc = "done"
    /\ inv[p].err = "none"
    /\ inv[p].returned + 1 < SequentialCalls
    /\ inv' = [inv EXCEPT ![p] =
                  [Idle EXCEPT !.returned = inv[p].returned + 1,
                               !.zone = inv[p].zone]]
    /\ UNCHANGED <<registrar, nextId, calls>>

\* The request log without the requests of p's earlier calls.
OthersCalls(p) == SelectSeq(calls, LAMBDA c : c.p # p)

\* The locals of a method at its entry by a caller that has made calls
\* before; the log starts anew for the caller.
EnteredNext(p, op, pc, records) ==
    [Entered(op, pc, inv[p].zone, records) EXCEPT
        !.mark = Len(OthersCalls(p)), !.returned = inv[p].returned]

\* The records of a call that follows another one: none or one.
NextLists(pool) == {<<>>} \cup { <<record>> : record \in pool }

\* A caller invokes one of the four methods after an earlier call.
StartNext(p) ==
    /\ inv[p].pc = "idle"
    /\ inv[p].returned > 0
    /\ \/ inv' = [inv EXCEPT ![p] = EnteredNext(p, "List", "get", <<>>)]
       \/ \E records \in NextLists(IdLessPool) :
             inv' = [inv EXCEPT ![p] = EnteredNext(p, "Append", "append", records)]
       \/ \E records \in NextLists(RequestPool) :
             inv' = [inv EXCEPT ![p] = EnteredNext(p, "Set", "get", records)]
       \/ \E records \in NextLists(IdLessPool) :
             inv' = [inv EXCEPT ![p] = EnteredNext(p, "Delete", "get", records)]
    /\ calls' = OthersCalls(p)
    /\ UNCHANGED <<registrar, nextId>>

\* The caller cancels the context of a running call, or its deadline
\* passes.  No method reads ctx: the requests are built with
\* http.NewRequest and sent with client.Do.
Cancel(p) ==
    /\ inv[p].pc \notin {"idle", "done", "aborted"}
    /\ ~inv[p].ctxDone
    /\ inv' = [inv EXCEPT ![p].ctxDone = TRUE]
    /\ UNCHANGED <<registrar, nextId, calls>>

\* What GetRecords decodes from a body: the records the registrar lists,
\* or none when the reply is an error reply.
Listed(outcome) == IF outcome = "ok" THEN registrar ELSE <<>>

\* GetRecords: one dnsListRecords request.
GetRecordsCall(p) ==
    LET s == inv[p] IN
    /\ s.pc = "get"
    /\ \E outcome \in Outcomes :
          /\ calls' = Append(calls, Call(p, "list", getDomain(s.zone), "", "",
                                         <<>>, "", <<>>, <<>>, outcome))
          /\ inv' = [inv EXCEPT ![p] =
                IF outcome \in {"transport", "status"}
                THEN Failed(s, outcome)
                ELSE IF outcome = "decode"
                THEN [s EXCEPT !.pc = "aborted"]
                ELSE IF s.op = "List"
                THEN [s EXCEPT !.pc = "done", !.result = Listed(outcome)]
                ELSE [s EXCEPT !.pc = IF s.op = "Set" THEN "classify" ELSE "match",
                               !.listing = Listed(outcome),
                               !.currentRecords = Listed(outcome),
                               !.k = 1]]
    /\ UNCHANGED <<registrar, nextId>>

\* SetRecords: one iteration of the partition loop.
SetClassify(p) ==
    LET s == inv[p] IN
    /\ s.pc = "classify"
    /\ s.k <= Len(s.records)
    /\ LET c == SetClassifyOne(s.zone, s.records[s.k], s.currentRecords) IN
       inv' = [inv EXCEPT ![p] =
                  [s EXCEPT !.k = s.k + 1,
                            !.currentRecords = c.pool,
                            !.updateRecords =
                                IF c.class = "update" THEN Append(@, c.record) ELSE @,
                            !.appendRecords =
                                IF c.class = "append" THEN Append(@, c.record) ELSE @]]
    /\ UNCHANGED <<registrar, nextId, calls>>

\* SetRecords: the partition loop is over, AppendRecords is called.
SetCallAppend(p) ==
    LET s == inv[p] IN
    /\ s.pc = "classify"
    /\ s.k > Len(s.records)
    /\ inv' = [inv EXCEPT ![p] = [s EXCEPT !.pc = "append", !.i = 1]]
    /\ UNCHANGED <<registrar, nextId, calls>>

\* AppendCall going on to the next record after a request that failed.
AppendCallNoAbort(p) ==
    LET s == inv[p] IN
    /\ s.pc = "append"
    /\ s.i <= Len(AppendInput(s))
    /\ LET record == AppendInput(s)[s.i]
           host == getHostname(s.zone, record.Name) IN
       \E outcome \in Outcomes :
          /\ calls' = Append(calls, Call(p, "create", getDomain(s.zone), "",
                                         record.Type, host, record.Value,
                                         rrttl(record), rrdistance(record), outcome))
          /\ IF ReplyCode(outcome) = SuccessCode
             THEN /\ registrar' = RegCreate(registrar, ToString(nextId), record.Type,
                                            host, record.Value,
                                            rrttl(record), rrdistance(record))
                  /\ nextId' = nextId + 1
                  /\ inv' = [inv EXCEPT ![p] =
                                [s EXCEPT !.i = s.i + 1,
                                          !.appendedRecords = Append(@, record)]]
             ELSE /\ UNCHANGED <<registrar, nextId>>
                  /\ inv' = [inv EXCEPT ![p] = [s EXCEPT !.i = s.i + 1]]

\* AppendRecords: one dnsAddRecord request.
AppendCall(p) ==
    LET s == inv[p] IN
    /\ s.pc = "append"
    /\ s.i <= Len(AppendInput(s))
    /\ LET record == AppendInput(s)[s.i]
           host == getHostname(s.zone, record.Name) IN
       \E outcome \in Outcomes :
          /\ calls' = Append(calls, Call(p, "create", getDomain(s.zone), "",
                                         record.Type, host, record.Value,
                                         rrttl(record), rrdistance(record), outcome))
          /\ IF ReplyCode(outcome) = SuccessCode
             THEN /\ registrar' = RegCreate(registrar, ToString(nextId), record.Type,
                                            host, record.Value,
                                            rrttl(record), rrdistance(record))
                  /\ nextId' = nextId + 1
                  /\ inv' = [inv EXCEPT ![p] =
                                [s EXCEPT !.i = s.i + 1,
                                          !.appendedRecords = Append(@, record)]]
             ELSE /\ UNCHANGED <<registrar, nextId>>
                  /\ inv' = [inv EXCEPT ![p] = Failed(s, outcome)]

\* AppendRecords returns appendedRecords; in SetRecords the result is
\* copied into updatedRecords and the update loop begins.
AppendReturn(p) ==
    LET s == inv[p] IN
    /\ s.pc = "append"
    /\ s.i > Len(AppendInput(s))
    /\ inv' = [inv EXCEPT ![p] =
          IF s.op = "Append"
          THEN [s EXCEPT !.pc = "done", !.result = s.appendedRecords]
          ELSE [s EXCEPT !.pc = "update", !.i = 1,
                         !.updatedRecords = GoCopy(<<>>, s.appendedRecords)]]
    /\ UNCHANGED <<registrar, nextId, calls>>

\* UpdateCall going on to the next record after a request that failed.
UpdateCallNoAbort(p) ==
    LET s == inv[p] IN
    /\ s.pc = "update"
    /\ s.i <= Len(s.updateRecords)
    /\ LET record == s.updateRecords[s.i]
           host == getHostname(s.zone, record.Name) IN
       \E outcome \in Outcomes :
          /\ outcome = "ok" => HasId(registrar, record.ID)
          /\ calls' = Append(calls, Call(p, "update", getDomain(s.zone), record.ID,
                                         "", host, record.Value,
                                         rrttl(record), rrdistance(record), outcome))
          /\ IF ReplyCode(outcome) = SuccessCode
             THEN /\ registrar' = RegUpdate(registrar, record.ID, host, record.Value,
                                            rrttl(record), rrdistance(record))
                  /\ inv' = [inv EXCEPT ![p] =
                                [s EXCEPT !.i = s.i + 1,
                                          !.updatedRecords = Append(@, record)]]
             ELSE /\ UNCHANGED registrar
                  /\ inv' = [inv EXCEPT ![p] = [s EXCEPT !.i = s.i + 1]]
    /\ UNCHANGED nextId

\* SetRecords: one dnsUpdateRecord request.
UpdateCall(p) ==
    LET s == inv[p] IN
    /\ s.pc = "update"
    /\ s.i <= Len(s.updateRecords)
    /\ LET record == s.updateRecords[s.i]
           host == getHostname(s.zone, record.Name) IN
       \E outcome \in Outcomes :
          /\ outcome = "ok" => HasId(registrar, record.ID)
          /\ calls' = Append(calls, Call(p, "update", getDomain(s.zone), record.ID,
                                         "", host, record.Value,
                                         rrttl(record), rrdistance(record), outcome))
          /\ IF ReplyCode(outcome) = SuccessCode
             THEN /\ registrar' = RegUpdate(registrar, record.ID, host, record.Value,
                                            rrttl(record), rrdistance(record))
                  /\ inv' = [inv EXCEPT ![p] =
                                [s EXCEPT !.i = s.i + 1,
                                          !.updatedRecords = Append(@, record)]]
             ELSE /\ UNCHANGED registrar
                  /\ inv' = [inv EXCEPT ![p] = Failed(s, outcome)]
    /\ UNCHANGED nextId

\* SetRecords returns updatedRecords.
SetReturn(p) ==
    LET s == inv[p] IN
    /\ s.pc = "update"
    /\ s.i > Len(s.updateRecords)
    /\ inv' = [inv EXCEPT ![p] =
                  [s EXCEPT !.pc = "done", !.result = s.updatedRecords]]
    /\ UNCHANGED <<registrar, nextId, calls>>

\* DeleteMatch failing the call on a requested record without match.
DeleteMatchStrict(p) ==
    LET s == inv[p] IN
    /\ s.pc = "match"
    /\ s.k <= Len(s.records)
    /\ LET m == DeleteScan(s.zone, s.records[s.k], s.currentRecords, 1) IN
       inv' = [inv EXCEPT ![p] =
          IF m = 0
          THEN Failed(s, "nomatch")
          ELSE [s EXCEPT !.k = s.k + 1,
                         !.currentRecords = RemoveAt(@, m),
                         !.deleteRecords = Append(@, s.currentRecords[m])]]
    /\ UNCHANGED <<registrar, nextId, calls>>

\* DeleteMatch queueing the caller's record with the matched ID, as
\* SetRecords does, instead of the record of the listing.
DeleteMatchCallerRecord(p) ==
    LET s == inv[p] IN
    /\ s.pc = "match"
    /\ s.k <= Len(s.records)
    /\ LET m == DeleteScan(s.zone, s.records[s.k], s.currentRecords, 1) IN
       inv' = [inv EXCEPT ![p] =
          IF m = 0
          THEN [s EXCEPT !.k = s.k + 1]
          ELSE [s EXCEPT !.k = s.k + 1,
                         !.currentRecords = RemoveAt(@, m),
                         !.deleteRecords =
                             Append(@, [s.records[s.k] EXCEPT
                                           !.ID = s.currentRecords[m].ID])]]
    /\ UNCHANGED <<registrar, nextId, calls>>

\* DeleteMatch leaving the matched record in the pool.
DeleteMatchNoConsume(p) ==
    LET s == inv[p] IN
    /\ s.pc = "match"
    /\ s.k <= Len(s.records)
    /\ LET m == DeleteScan(s.zone, s.records[s.k], s.currentRecords, 1) IN
       inv' = [inv EXCEPT ![p] =
          IF m = 0
          THEN [s EXCEPT !.k = s.k + 1]
          ELSE [s EXCEPT !.k = s.k + 1,
                         !.deleteRecords = Append(@, s.currentRecords[m])]]
    /\ UNCHANGED <<registrar, nextId, calls>>

\* DeleteRecords: one iteration of the matching loop.
DeleteMatch(p) ==
    LET s == inv[p] IN
    /\ s.pc = "match"
    /\ s.k <= Len(s.records)
    /\ LET m == DeleteScan(s.zone, s.records[s.k], s.currentRecords, 1) IN
       inv' = [inv EXCEPT ![p] =
          IF m = 0
          THEN [s EXCEPT !.k = s.k + 1]
          ELSE [s EXCEPT !.k = s.k + 1,
                         !.currentRecords = RemoveAt(@, m),
                         !.deleteRecords = Append(@, s.currentRecords[m])]]
    /\ UNCHANGED <<registrar, nextId, calls>>

\* DeleteRecords: the matching loop is over.
DeleteBegin(p) ==
    LET s == inv[p] IN
    /\ s.pc = "match"
    /\ s.k > Len(s.records)
    /\ inv' = [inv EXCEPT ![p] = [s EXCEPT !.pc = "delete", !.i = 1]]
    /\ UNCHANGED <<registrar, nextId, calls>>

\* DeleteRecords: one dnsDeleteRecord request.
DeleteCall(p) ==
    LET s == inv[p] IN
    /\ s.pc = "delete"
    /\ s.i <= Len(s.deleteRecords)
    /\ LET record == s.deleteRecords[s.i] IN
       \E outcome \in Outcomes :
          /\ outcome = "ok" => HasId(registrar, record.ID)
          /\ calls' = Append(calls, Call(p, "delete", getDomain(s.zone), record.ID,
                                         "", <<>>, "", <<>>, <<>>, outcome))
          /\ IF ReplyCode(outcome) = SuccessCode
             THEN /\ registrar' = RegDelete(registrar, record.ID)
                  /\ inv' = [inv EXCEPT ![p] =
                                [s EXCEPT !.i = s.i + 1,
                                          !.deletedRecords = Append(@, record)]]
             ELSE /\ UNCHANGED registrar
                  /\ inv' = [inv EXCEPT ![p] = Failed(s, outcome)]
    /\ UNCHANGED nextId

\* DeleteRecords returns deletedRecords.
DeleteReturn(p) ==
    LET s == inv[p] IN
    /\ s.pc = "delete"
    /\ s.i > Len(s.deleteRecords)
    /\ inv' = [inv EXCEPT ![p] =
                  [s EXCEPT !.pc = "done", !.result = s.deletedRecords]]
    /\ UNCHANGED <<registrar, nextId, calls>>

Next ==
    \E p \in Procs :
       \/ Start(p)
       \/ GetRecordsCall(p)
       \/ SetClassify(p)
       \/ SetCallAppend(p)
       \/ AppendCall(p)
       \/ AppendReturn(p)
       \/ UpdateCall(p)
       \/ SetReturn(p)
       \/ DeleteMatch(p)
       \/ DeleteBegin(p)
       \/ DeleteCall(p)
       \/ DeleteReturn(p)
       \/ Return(p)
       \/ StartNext(p)

Spec == Init /\ [][Next]_vars

\* The calls of Spec, with a context that can be cancelled while they run.
NextCancel ==
    \/ Next
    \/ \E p \in Procs : Cancel(p)

SpecCancel == Init /\ [][NextCancel]_vars

(***************************************************************************)
(* Vocabulary of the properties.                                           *)
(***************************************************************************)
CallsOfP(p) == SelectSeq(calls, LAMBDA c : c.p = p)

CallsBy(p, kind) == SelectSeq(calls, LAMBDA c : c.p = p /\ c.kind = kind)

OkCallsBy(p, kind) ==
    SelectSeq(calls, LAMBDA c : c.p = p /\ c.kind = kind /\ c.outcome = "ok")

AllOk(p) == \A j \in 1..Len(calls) : calls[j].p = p => calls[j].outcome = "ok"

IsPrefix(a, b) == Len(a) <= Len(b) /\ SubSeq(b, 1, Len(a)) = a

IsSuffix(a, b) == Len(a) <= Len(b) /\ SubSeq(b, Len(b) - Len(a) + 1, Len(b)) = a

AllIdLess(records) == \A j \in 1..Len(records) : records[j].ID = ""

\* The arguments of a create request and the ones record asks for.
CreateArgs(c) == <<c.domain, c.rrtype, c.rrhost, c.rrvalue>>

CreateArgsFor(zone, record) ==
    <<getDomain(zone), record.Type, getHostname(zone, record.Name), record.Value>>

\* The arguments of an update request and the ones record asks for.
UpdateArgs(c) == <<c.rrid, c.rrhost, c.rrvalue>>

UpdateArgsFor(zone, record) ==
    <<record.ID, getHostname(zone, record.Name), record.Value>>

\* Same Type and same zone-normalized Name.
SameKey(zone, a, b) ==
    a.Type = b.Type /\ getHostname(zone, a.Name) = getHostname(zone, b.Name)

\* The first record of pool, in listing order, with the key of record;
\* 0 when there is none.
FirstMatch(zone, pool, record) ==
    LET M == { j \in 1..Len(pool) : SameKey(zone, pool[j], record) } IN
    IF M = {} THEN 0 ELSE CHOOSE j \in M : \A l \in M : j <= l

\* The partition of the specification: a record with an ID is an update, a
\* record without ID is bound to the first match of the remaining pool, and
\* is a create when the remaining pool holds no match.
RECURSIVE RefPartition(_, _, _)
RefPartition(zone, records, pool) ==
    IF records = <<>>
    THEN [updates |-> <<>>, creates |-> <<>>]
    ELSE LET r == Head(records)
             m == IF r.ID = "" THEN FirstMatch(zone, pool, r) ELSE 0
             rest == RefPartition(zone, Tail(records),
                                  IF m = 0 THEN pool ELSE RemoveAt(pool, m))
         IN  IF r.ID # "" THEN [rest EXCEPT !.updates = <<r>> \o @]
             ELSE IF m # 0
             THEN [rest EXCEPT !.updates = <<[r EXCEPT !.ID = pool[m].ID]>> \o @]
             ELSE [rest EXCEPT !.creates = <<r>> \o @]

\* The deletion queue of the specification.
RECURSIVE RefDeleteQueue(_, _, _)
RefDeleteQueue(zone, records, pool) ==
    IF records = <<>> THEN <<>>
    ELSE LET m == FirstMatch(zone, pool, Head(records)) IN
         IF m = 0 THEN RefDeleteQueue(zone, Tail(records), pool)
         ELSE <<pool[m]>> \o RefDeleteQueue(zone, Tail(records), RemoveAt(pool, m))

\* The desired records SetRecords has classified so far.
Classified(s) == SubSeq(s.records, 1, s.k - 1)

\* SetRecords has fetched the listing.
InSet(s) == s.op = "Set" /\ s.pc \in {"classify", "append", "update", "done"}

\* DeleteRecords has fetched the listing.
InDelete(s) == s.op = "Delete" /\ s.pc \in {"match", "delete", "done"}

Succeeded(s) == s.pc = "done" /\ s.err = "none"

(***************************************************************************)
(* SetRecords: the partition.                                              *)
(***************************************************************************)
\* C1: in SetRecords every desired record without ID that has no record of
\* its Type and zone-normalized Name in the remaining pool is classified
\* as a create, whatever the pool holds (also nothing), and a SetRecords
\* that succeeds has issued exactly one create request for each of them.
C1_NoMatchIsCreate ==
    \A p \in DOMAIN inv :
       LET s == inv[p]
           ref == RefPartition(s.zone, Classified(s), s.listing).creates
       IN  InSet(s) =>
              /\ s.appendRecords = ref
              /\ Succeeded(s) =>
                    [j \in 1..Len(CallsBy(p, "create")) |->
                        CreateArgs(CallsBy(p, "create")[j])]
                    = [j \in 1..Len(ref) |-> CreateArgsFor(s.zone, ref[j])]

\* C2: a desired record without ID is bound to the first record, in listing
\* order, of the remaining pool that has its Type and zone-normalized Name;
\* the update requests carry, record by record, the bound ID, the
\* normalized host name and the desired value, and a SetRecords that
\* succeeds has issued one for every bound record and returns them with
\* the desired values and the bound ID.
C2_BoundToFirstMatch ==
    \A p \in DOMAIN inv :
       LET s == inv[p]
           ref == RefPartition(s.zone, Classified(s), s.listing).updates
           sent == [j \in 1..Len(CallsBy(p, "update")) |->
                       UpdateArgs(CallsBy(p, "update")[j])]
           asked == [j \in 1..Len(ref) |-> UpdateArgsFor(s.zone, ref[j])]
       IN  InSet(s) =>
              /\ s.updateRecords = ref
              /\ IsPrefix(sent, asked)
              /\ Succeeded(s) => sent = asked /\ IsSuffix(ref, s.result)

\* The first scenario of the specification: the registrar lists
\* {TXT, "a", id 1} and SetRecords is called with {TXT, "a.z.c", v2}: one
\* update request with id 1, host "a", value v2, and one record returned,
\* with ID 1.
C2_Witness ==
    \E p \in DOMAIN inv :
       LET s == inv[p] IN
       /\ s.op = "Set" /\ Succeeded(s)
       /\ s.zone = ZoneName
       /\ Len(s.listing) = 1
       /\ s.listing[1].Type = "TXT" /\ s.listing[1].Name = HostA
       /\ s.listing[1].ID = "1"
       /\ s.records = <<Record("", "TXT", Fqdn(HostA), "v2", 3600, 0)>>
       /\ Len(CallsBy(p, "update")) = 1
       /\ UpdateArgs(CallsBy(p, "update")[1]) = <<"1", HostA, "v2">>
       /\ Len(s.result) = 1 /\ s.result[1].ID = "1" /\ s.result[1].Value = "v2"

Count(ids, id) == Cardinality({ j \in 1..Len(ids) : ids[j] = id })

IdsOf(records) == [j \in 1..Len(records) |-> records[j].ID]

\* The IDs, in listing order, of the records of the listing with the key
\* of record.
MatchingIds(zone, listing, record) ==
    LET M == SelectSeq(listing, LAMBDA c : SameKey(zone, c, record)) IN
    [j \in 1..Len(M) |-> M[j].ID]

WithKey(zone, records, record) ==
    SelectSeq(records, LAMBDA r : SameKey(zone, r, record))

Min(a, b) == IF a <= b THEN a ELSE b

\* C3: matching is consumed-once.  When SetRecords is called with records
\* without ID, then for every desired record d, with n desired records of
\* d's Type and Name and k >= 1 listed ones, the first min(k, n) of them
\* are bound to the first min(k, n) listed ones, in listing order, and the
\* other n - k are creates.
C3_ConsumedOnce ==
    \A p \in DOMAIN inv :
       LET s == inv[p] IN
       (InSet(s) /\ s.k > Len(s.records) /\ AllIdLess(s.records)) =>
          \A d \in 1..Len(s.records) :
             LET n == Len(WithKey(s.zone, s.records, s.records[d]))
                 ids == MatchingIds(s.zone, s.listing, s.records[d])
                 k == Len(ids)
                 bound == WithKey(s.zone, s.updateRecords, s.records[d])
                 created == WithKey(s.zone, s.appendRecords, s.records[d])
             IN  k >= 1 =>
                    /\ IdsOf(bound) = SubSeq(ids, 1, Min(k, n))
                    /\ Len(created) = n - Min(k, n)

\* C4: a SetRecords that succeeds returns the records AppendRecords
\* returned followed by the updated records.
C4_ReturnsCreatedThenUpdated ==
    \A p \in DOMAIN inv :
       LET s == inv[p] IN
       (s.op = "Set" /\ Succeeded(s)) =>
          s.result = s.appendedRecords \o s.updateRecords

Distinct(ids) ==
    \A a, b \in 1..Len(ids) : a # b => ids[a] # ids[b]

UpdateIds(p) ==
    [j \in 1..Len(CallsBy(p, "update")) |-> CallsBy(p, "update")[j].rrid]

\* C5 as claimed: no two update requests of one SetRecords carry the same
\* ID, whatever the desired list (explicit IDs included).
C5_NoIdTwice ==
    \A p \in DOMAIN inv : inv[p].op = "Set" => Distinct(UpdateIds(p))

\* C5 as amended: at most one desired record without ID is bound to any
\* given record of the listing.  An ID is carried by at most one update
\* record more than the desired records classified so far name it
\* explicitly, and by at most one update request more than the desired
\* list names it (an explicit ID is passed through as given and consumes
\* nothing of the pool).
C5_NoBoundIdTwice ==
    \A p \in DOMAIN inv :
       LET s == inv[p] IN
       InSet(s) =>
          \A j \in 1..Len(s.listing) :
             LET id == s.listing[j].ID IN
             /\ Count(IdsOf(s.updateRecords), id)
                   <= Count(IdsOf(Classified(s)), id) + 1
             /\ Count(UpdateIds(p), id) <= Count(IdsOf(s.records), id) + 1

\* Two desired records without ID of one Type and Name were bound, to two
\* records, next to a record with an explicit ID, and all were updated.
C5_Witness ==
    \E p \in DOMAIN inv :
       /\ inv[p].op = "Set" /\ Succeeded(inv[p])
       /\ Len(inv[p].records) = 3
       /\ inv[p].records[1].ID = "" /\ inv[p].records[2].ID = ""
       /\ SameKey(inv[p].zone, inv[p].records[1], inv[p].records[2])
       /\ inv[p].records[3].ID # ""
       /\ Len(UpdateIds(p)) = 3
       /\ UpdateIds(p)[1] # UpdateIds(p)[2]

(***************************************************************************)
(* SetRecords and AppendRecords: the requests.                             *)
(***************************************************************************)
\* The desired list is the listing: record by record the same ID (filled
\* in), Type and zone-normalized Name.
DesiredIsCurrent(s) ==
    /\ Len(s.records) = Len(s.listing)
    /\ \A j \in 1..Len(s.records) :
          /\ s.records[j].ID # ""
          /\ s.records[j].ID = s.listing[j].ID
          /\ SameKey(s.zone, s.records[j], s.listing[j])

ListedOk(p) ==
    Len(CallsBy(p, "list")) = 1 /\ CallsBy(p, "list")[1].outcome = "ok"

\* C6: SetRecords called with the records the registrar lists (IDs filled
\* in) issues no create request and leaves the number of records at the
\* registrar as it was; when every request succeeds it has issued one
\* update request per record and nothing else.
C6_SetIsIdempotent ==
    \A p \in DOMAIN inv :
       LET s == inv[p] IN
       (InSet(s) /\ ListedOk(p) /\ DesiredIsCurrent(s)) =>
          /\ CallsBy(p, "create") = <<>>
          /\ Len(registrar) = Len(s.listing)
          /\ Succeeded(s) =>
                /\ Len(CallsBy(p, "update")) = Len(s.records)
                /\ Len(CallsOfP(p)) = 1 + Len(s.records)

\* SetRecords succeeded on a listing of two records passed back with new
\* values.
C6_Witness ==
    \E p \in DOMAIN inv :
       LET s == inv[p] IN
       /\ s.op = "Set" /\ Succeeded(s) /\ ListedOk(p) /\ DesiredIsCurrent(s)
       /\ Len(s.records) = 2
       /\ s.records[1].Value # s.listing[1].Value
       /\ Len(CallsBy(p, "update")) = 2

\* The last n records of the registrar are the ones the successful create
\* requests cs asked for, in order.
CreatedRemain(cs) ==
    /\ Len(registrar) >= Len(cs)
    /\ \A j \in 1..Len(cs) :
          LET r == registrar[Len(registrar) - Len(cs) + j] IN
          /\ r.Type = cs[j].rrtype
          /\ r.Name = cs[j].rrhost
          /\ r.Value = cs[j].rrvalue

\* C7: AppendRecords issues create requests only, one per input record in
\* input order; every request before the last one succeeded; after a
\* request that failed the call is over with an error and no result; a
\* call that ends without error has issued a request for every record and
\* returns its input; the records created stay at the registrar.
C7_AppendInOrderAbortsOnFailure ==
    \A p \in DOMAIN inv :
       LET s == inv[p]
           cs == CallsOfP(p)
           n == Len(cs)
       IN  s.op = "Append" =>
              /\ n <= Len(s.records)
              /\ \A j \in 1..n :
                    /\ cs[j].kind = "create"
                    /\ CreateArgs(cs[j]) = CreateArgsFor(s.zone, s.records[j])
                    /\ j < n => cs[j].outcome = "ok"
              /\ (n > 0 /\ cs[n].outcome # "ok") =>
                    s.pc = "done" /\ s.err # "none" /\ s.result = <<>>
              /\ Succeeded(s) => n = Len(s.records) /\ s.result = s.records
              /\ CreatedRemain(OkCallsBy(p, "create"))

\* AppendRecords failed on its third record after two records were
\* created.
C7_Witness ==
    \E p \in DOMAIN inv :
       LET s == inv[p] IN
       /\ s.op = "Append" /\ s.pc = "done" /\ s.err # "none"
       /\ Len(s.records) = 3
       /\ Len(CallsOfP(p)) = 3
       /\ Len(OkCallsBy(p, "create")) = 2
       /\ Len(registrar) >= 2

Rank(kind) ==
    IF kind = "list" THEN 0 ELSE IF kind = "create" THEN 1
    ELSE IF kind = "update" THEN 2 ELSE 3

\* Every successful update request that no later successful one for the
\* same ID follows shows at the registrar.
UpdatedRemain(cs) ==
    \A j \in 1..Len(cs) :
       (\A l \in (j + 1)..Len(cs) : cs[l].rrid # cs[j].rrid) =>
          \E r \in 1..Len(registrar) :
             /\ registrar[r].ID = cs[j].rrid
             /\ registrar[r].Name = cs[j].rrhost
             /\ registrar[r].Value = cs[j].rrvalue

\* C8: SetRecords issues the list request, then the create requests, then
\* the update requests, and nothing else; a create or update request that
\* failed is the last request, and the call is then over with an error and
\* no result; the update requests are the ones of the update records, in
\* order; what was created and updated stays at the registrar.
C8_CreatesThenUpdates ==
    \A p \in DOMAIN inv :
       LET s == inv[p]
           cs == CallsOfP(p)
           n == Len(cs)
           sent == [j \in 1..Len(CallsBy(p, "update")) |->
                       UpdateArgs(CallsBy(p, "update")[j])]
           asked == [j \in 1..Len(s.updateRecords) |->
                        UpdateArgsFor(s.zone, s.updateRecords[j])]
       IN  s.op = "Set" =>
              /\ \A a, b \in 1..n : a < b => Rank(cs[a].kind) <= Rank(cs[b].kind)
              /\ \A j \in 1..n :
                    /\ cs[j].kind \in {"list", "create", "update"}
                    /\ (j < n /\ cs[j].kind # "list") => cs[j].outcome = "ok"
              /\ (n > 0 /\ cs[n].kind # "list" /\ cs[n].outcome # "ok") =>
                    s.pc = "done" /\ s.err # "none" /\ s.result = <<>>
              /\ IsPrefix(sent, asked)
              /\ Succeeded(s) => sent = asked
              /\ ListedOk(p) =>
                    /\ Len(registrar) = Len(s.listing) + Len(OkCallsBy(p, "create"))
                    /\ CreatedRemain(OkCallsBy(p, "create"))
                    /\ UpdatedRemain(OkCallsBy(p, "update"))

\* SetRecords created a record, updated a record and failed on the second
\* update.
C8_Witness ==
    \E p \in DOMAIN inv :
       LET s == inv[p] IN
       /\ s.op = "Set" /\ s.pc = "done" /\ s.err # "none" /\ ListedOk(p)
       /\ Len(OkCallsBy(p, "create")) = 1
       /\ Len(OkCallsBy(p, "update")) = 1
       /\ Len(CallsBy(p, "update")) = 2
       /\ Len(s.updateRecords) = 2

(***************************************************************************)
(* DeleteRecords.                                                          *)
(***************************************************************************)
\* C9: a requested record that matches no record of the remaining pool is
\* skipped and the others are still processed: the queue holds one record
\* per requested record the pool had a match for, and no record with the
\* key of a requested record the listing has no match for; DeleteRecords
\* fails only when a request fails, and a call that succeeds has issued
\* one delete request per queued record and returns as many records.
C9_UnmatchedIsSkipped ==
    \A p \in DOMAIN inv :
       LET s == inv[p]
           cs == CallsOfP(p)
       IN  InDelete(s) =>
              /\ Len(s.deleteRecords)
                    = Len(RefDeleteQueue(s.zone, Classified(s), s.listing))
              /\ \A j \in 1..(s.k - 1) :
                    FirstMatch(s.zone, s.listing, s.records[j]) = 0 =>
                       /\ \A d \in 1..Len(s.deleteRecords) :
                             ~SameKey(s.zone, s.deleteRecords[d], s.records[j])
                       /\ \A d \in 1..Len(s.result) :
                             ~SameKey(s.zone, s.result[d], s.records[j])
              /\ Len(CallsBy(p, "delete")) <= Len(s.deleteRecords)
              /\ s.err # "none" => cs[Len(cs)].outcome # "ok"
              /\ Succeeded(s) =>
                    /\ s.k = Len(s.records) + 1
                    /\ Len(CallsBy(p, "delete")) = Len(s.deleteRecords)
                    /\ Len(s.result) = Len(s.deleteRecords)

\* The third scenario of the specification: the registrar lists one record
\* of host "a" with id 1, DeleteRecords is called with "a.z.c" and with a
\* record of host "b": one delete request, with id 1, and one record
\* returned.
C9_Witness ==
    \E p \in DOMAIN inv :
       LET s == inv[p] IN
       /\ s.op = "Delete" /\ Succeeded(s)
       /\ s.zone = ZoneName
       /\ Len(s.listing) = 1
       /\ s.listing[1].Type = "TXT" /\ s.listing[1].Name = HostA
       /\ s.listing[1].ID = "1"
       /\ s.records = <<Record("", "TXT", Fqdn(HostA), "v2", 3600, 0),
                        Record("", "A", Fqdn(HostB), "v2", 3600, 10)>>
       /\ Len(CallsBy(p, "delete")) = 1
       /\ CallsBy(p, "delete")[1].rrid = "1"
       /\ Len(s.result) = 1

\* C10: a DeleteRecords that succeeds has issued one delete request per
\* matched record of the listing, in match order, with the ID the listing
\* gives, and returns those records as the listing gives them.
C10_DeletesListedRecords ==
    \A p \in DOMAIN inv :
       LET s == inv[p]
           ref == RefDeleteQueue(s.zone, s.records, s.listing)
       IN  (s.op = "Delete" /\ Succeeded(s)) =>
              /\ s.result = ref
              /\ [j \in 1..Len(CallsBy(p, "delete")) |-> CallsBy(p, "delete")[j].rrid]
                    = IdsOf(ref)
              /\ \A j \in 1..Len(s.result) :
                    \E l \in 1..Len(s.listing) : s.result[j] = s.listing[l]

\* DeleteRecords deleted two records of one key, in listing order, for
\* requests that carry another value than the records deleted.
C10_Witness ==
    \E p \in DOMAIN inv :
       LET s == inv[p] IN
       /\ s.op = "Delete" /\ Succeeded(s)
       /\ Len(s.result) = 2
       /\ s.result[1].ID = "1" /\ s.result[2].ID = "2"
       /\ SameKey(s.zone, s.result[1], s.result[2])
       /\ s.result[1].Value = "v1" /\ s.records[1].Value = "v2"
       /\ Len(CallsBy(p, "delete")) = 2
       /\ registrar = <<>>

(***************************************************************************)
(* Errors.                                                                 *)
(***************************************************************************)
\* The requests of p that got status 200 and a code other than the success
\* code, among the kinds given.
CodeReplies(p, kinds) ==
    { j \in 1..Len(calls) :
         calls[j].p = p /\ calls[j].kind \in kinds /\ calls[j].outcome = "code" }

\* The last request of p.
LastCall(p) == CallsOfP(p)[Len(CallsOfP(p))]

\* C11: a reply with status 200 and a code other than 300 to any
\* request, the list request included, ends the enclosing call with an
\* error.
C11_AnyCodeFails ==
    \A p \in DOMAIN inv :
       CodeReplies(p, {"list", "create", "update", "delete"}) # {} =>
          inv[p].pc = "done" /\ inv[p].err # "none"

\* The registrar's records after the requests cs, all of which succeeded,
\* were applied in order to reg; id is the number the next created record
\* gets.
RECURSIVE Replay(_, _, _)
Replay(reg, cs, id) ==
    IF cs = <<>> THEN reg
    ELSE LET c == Head(cs) IN
         IF c.kind = "create"
         THEN Replay(Append(reg, Record(ToString(id), c.rrtype, c.rrhost, c.rrvalue,
                                        IF c.rrttl = <<>> THEN 0 ELSE c.rrttl[1],
                                        IF c.rrdistance = <<>> THEN 0
                                        ELSE c.rrdistance[1])),
                     Tail(cs), id + 1)
         ELSE IF c.kind = "update"
         THEN Replay([j \in 1..Len(reg) |->
                         IF reg[j].ID # c.rrid THEN reg[j]
                         ELSE [reg[j] EXCEPT
                                  !.Name = c.rrhost, !.Value = c.rrvalue,
                                  !.TTL = IF c.rrttl = <<>> THEN @ ELSE c.rrttl[1],
                                  !.Priority = IF c.rrdistance = <<>> THEN @
                                               ELSE c.rrdistance[1]]],
                     Tail(cs), id)
         ELSE IF c.kind = "delete"
         THEN Replay(SelectSeq(reg, LAMBDA r : r.ID # c.rrid), Tail(cs), id)
         ELSE Replay(reg, Tail(cs), id)

\* The requests of p that succeeded and change the registrar.
Completed(p) ==
    SelectSeq(calls, LAMBDA c : c.p = p /\ c.outcome = "ok" /\ c.kind # "list")

\* C12: a call that returns an error returns no records; the request that
\* failed is its last one, and the registrar holds what it held before the
\* call with the requests that succeeded before it applied in order.
C12_NoPartialResult ==
    \A p \in DOMAIN inv :
       LET s == inv[p] IN
       (s.pc = "done" /\ s.err # "none") =>
          /\ s.result = <<>>
          /\ LastCall(p).outcome = s.err
          /\ \A j \in 1..(Len(CallsOfP(p)) - 1) :
                CallsOfP(p)[j].kind # "list" => CallsOfP(p)[j].outcome = "ok"
          /\ registrar = Replay(s.before, Completed(p),
                                nextId - Len(OkCallsBy(p, "create")))

\* DeleteRecords failed on its second delete request: the first record is
\* gone, the second is still there, nothing is returned.
C12_Witness ==
    \E p \in DOMAIN inv :
       LET s == inv[p] IN
       /\ s.op = "Delete" /\ s.pc = "done" /\ s.err # "none"
       /\ Len(s.before) = 2 /\ Len(registrar) = 1
       /\ Len(s.deleteRecords) = 2 /\ Len(s.deletedRecords) = 1
       /\ Len(CallsBy(p, "delete")) = 2
       /\ registrar[1] = s.before[2]
       /\ s.result = <<>>

\* C13: once the context of a call is cancelled during its loop of mutating
\* calls (one of them has already gone out), the call issues no further
\* request.
MutatingCallsBy(p) == SelectSeq(CallsOfP(p), LAMBDA c : c.kind # "list")

C13_NoCallAfterCancel ==
    [][\A p \in DOMAIN inv :
          (inv[p].ctxDone /\ Len(MutatingCallsBy(p)) >= 1) =>
             CallsOfP(p)' = CallsOfP(p)]_vars

\* C14: when the list reply cannot be decoded the call returns an error to
\* its caller and issues no mutating call; the process is never aborted.
C14_DecodeErrorIsReturned ==
    \A p \in DOMAIN inv :
        (CallsOfP(p) # <<>> /\ LastCall(p).kind = "list"
           /\ LastCall(p).outcome = "decode") =>
            /\ inv[p].pc = "done"
            /\ inv[p].err # "none"

\* The list request of p failed: no reply, a status other than 200, a body
\* that cannot be decoded, or a reply with status 200 and a code other than
\* the success code.
ListFailed(p) ==
    /\ CallsOfP(p) # <<>>
    /\ CallsOfP(p)[1].kind = "list"
    /\ CallsOfP(p)[1].outcome # "ok"

\* C15: SetRecords and DeleteRecords send exactly one list request, before
\* any other request, and work on the records it returned, which are the
\* registrar's records at that moment, whatever an earlier call listed;
\* when the list request fails no create, update or delete request is sent
\* and the registrar's records are unchanged.
C15_OneFreshListFirst ==
    \A p \in DOMAIN inv :
       LET s == inv[p] IN
       s.op \in {"Set", "Delete"} =>
          /\ s.pc = "get" => CallsOfP(p) = <<>>
          /\ s.pc # "get" =>
                /\ Len(CallsBy(p, "list")) = 1
                /\ CallsOfP(p)[1].kind = "list"
                /\ CallsOfP(p)[1].outcome = "ok" => s.listing = s.before
                /\ \A j \in 1..Len(CallsBy(p, "delete")) :
                      \E m \in 1..Len(s.listing) :
                         CallsBy(p, "delete")[j].rrid = s.listing[m].ID
          /\ ListFailed(p) =>
                /\ Len(CallsOfP(p)) = 1
                /\ registrar = s.before

\* C16: every record GetRecords returns carries the hostname relative to the
\* zone (zone suffix and trailing dot removed), whatever form of name the
\* registrar lists.
C16_ListNamesNormalized ==
    \A p \in DOMAIN inv :
       LET s == inv[p] IN
       (s.op = "List" /\ Succeeded(s)) =>
          \A j \in 1..Len(s.result) :
             s.result[j].Name = getHostname(s.zone, s.result[j].Name)

(***************************************************************************)
(* Names.                                                                  *)
(***************************************************************************)
\* The host a name denotes in a zone: the name without its trailing dot and
\* without the zone, whichever way the zone itself is written.
CanonHost(zone, name) ==
    TrimSuffix(TrimSuffix(TrimSuffix(name, <<".">>), TrimSuffix(zone, <<".">>)),
               <<".">>)

\* C17: name matching compares the hosts the names denote.  With one
\* requested record without ID and one listed record, SetRecords binds and
\* DeleteRecords queues the listed record exactly when the two have the same
\* Type and denote the same host, for every form of zone and of name.
C17_MatchesSameHost ==
    \A p \in DOMAIN inv :
       LET s == inv[p] IN
       (/\ s.op \in {"Set", "Delete"}
        /\ s.pc \in {"classify", "match"}
        /\ s.k > Len(s.records)
        /\ Len(s.records) = 1 /\ s.records[1].ID = ""
        /\ Len(s.listing) = 1) =>
          LET same == /\ s.records[1].Type = s.listing[1].Type
                      /\ CanonHost(s.zone, s.records[1].Name)
                            = CanonHost(s.zone, s.listing[1].Name)
          IN  IF s.op = "Set"
              THEN (Len(s.updateRecords) = 1) <=> same
              ELSE (Len(s.deleteRecords) = 1) <=> same

(***************************************************************************)
(* DeleteRecords: the pool.                                                *)
(***************************************************************************)
DeleteIds(p) ==
    [j \in 1..Len(CallsBy(p, "delete")) |-> CallsBy(p, "delete")[j].rrid]

\* C18: in DeleteRecords a record of the listing is matched at most once.
\* Every listed record is either still in the pool or queued, never both
\* and never queued twice; no ID is carried by two delete requests; there
\* are at most min(requests, listed records) delete requests; and once the
\* matching loop is over, for every requested record r, with n requested
\* records of r's Type and Name and k listed ones, the queue holds the
\* first min(k, n) of the listed ones, in listing order.  (Type and Name
\* are compared as DeleteRecords compares them.)
C18_DeleteConsumesOnce ==
    \A p \in DOMAIN inv :
       LET s == inv[p] IN
       InDelete(s) =>
          /\ Distinct(IdsOf(s.deleteRecords))
          /\ Distinct(DeleteIds(p))
          /\ IsPrefix(DeleteIds(p), IdsOf(s.deleteRecords))
          /\ Succeeded(s) => DeleteIds(p) = IdsOf(s.deleteRecords)
          /\ Len(s.deleteRecords) + Len(s.currentRecords) = Len(s.listing)
          /\ \A l \in 1..Len(s.listing) :
                Count(IdsOf(s.deleteRecords), s.listing[l].ID)
                   + Count(IdsOf(s.currentRecords), s.listing[l].ID) = 1
          /\ Len(s.deleteRecords) <= Min(Len(s.records), Len(s.listing))
          /\ s.k > Len(s.records) =>
                \A d \in 1..Len(s.records) :
                   LET n == Len(WithKey(s.zone, s.records, s.records[d]))
                       ids == MatchingIds(s.zone, s.listing, s.records[d])
                       k == Len(ids)
                   IN  IdsOf(WithKey(s.zone, s.deleteRecords, s.records[d]))
                          = SubSeq(ids, 1, Min(k, n))

\* DeleteRecords was called with three records of one Type and Name, written
\* in two forms, against a listing with two records of that key: two delete
\* requests, with the IDs 1 and 2, and the registrar is left empty.
C18_Witness ==
    \E p \in DOMAIN inv :
       LET s == inv[p] IN
       /\ s.op = "Delete" /\ Succeeded(s)
       /\ Len(s.records) = 3
       /\ \A j \in 1..3 : SameKey(s.zone, s.records[j], s.records[1])
       /\ s.records[1].Name # s.records[2].Name
       /\ Len(s.listing) = 2
       /\ Len(MatchingIds(s.zone, s.listing, s.records[1])) = 2
       /\ DeleteIds(p) = <<"1", "2">>
       /\ registrar = <<>>

(***************************************************************************)
(* SetRecords called twice.                                                *)
(***************************************************************************)
MaxRepeat == 2

\* The desired records of a repeated SetRecords: the records without ID,
\* and one named by the fully qualified name with its trailing dot.
RepeatPool ==
    IdLessPool \cup { Record("", "TXT", Fqdn(HostA) \o <<".">>, "v2", 3600, 0) }

RepeatLists == SeqsUpTo(RepeatPool, MaxRepeat)

\* A caller invokes SetRecords.
StartSet(p) ==
    /\ inv[p].pc = "idle"
    /\ \E zone \in Zones, records \in RepeatLists :
          inv' = [inv EXCEPT ![p] = Entered("Set", "get", zone, records)]
    /\ UNCHANGED <<registrar, nextId, calls>>

\* The first SetRecords has succeeded and the caller invokes SetRecords
\* again with the same zone and records.
Again(p) ==
    /\ inv[p].op = "Set"
    /\ Succeeded(inv[p])
    /\ inv[p].mark = 0
    /\ inv' = [inv EXCEPT ![p] = Entered("Set", "get", inv[p].zone, inv[p].records)]
    /\ UNCHANGED <<registrar, nextId, calls>>

NextRepeat ==
    \E p \in Procs :
       \/ StartSet(p)
       \/ Again(p)
       \/ GetRecordsCall(p)
       \/ SetClassify(p)
       \/ SetCallAppend(p)
       \/ AppendCall(p)
       \/ AppendReturn(p)
       \/ UpdateCall(p)
       \/ SetReturn(p)

SpecRepeat == Init /\ [][NextRepeat]_vars

\* The requests sent since the running call was entered.
CallsSinceEntry(p) == SubSeq(calls, inv[p].mark + 1, Len(calls))

\* C19: SetRecords converges under repetition.  A second SetRecords with
\* the zone and records (all without ID) of a first one that succeeded
\* sends no create request, and when it succeeds the registrar has as many
\* records as when it was entered (every request of the two calls being
\* answered with success).
C19_SecondSetCreatesNothing ==
    \A p \in DOMAIN inv :
       LET s == inv[p] IN
       (s.op = "Set" /\ s.mark > 0 /\ AllIdLess(s.records) /\ AllOk(p)) =>
          /\ \A j \in 1..Len(CallsSinceEntry(p)) :
                CallsSinceEntry(p)[j].kind # "create"
          /\ Succeeded(s) => Len(registrar) = Len(s.before)

(***************************************************************************)
(* Two SetRecords at once.                                                 *)
(***************************************************************************)
\* Two goroutines share one Provider, which has no lock.
ConcProcs == {1, 2}

InitConc ==
    /\ registrar \in InitialRegistrars
    /\ nextId = Len(registrar) + 1
    /\ calls = <<>>
    /\ inv = [p \in ConcProcs |-> Idle]

\* A goroutine invokes SetRecords with one record without ID; the other
\* one invokes it with the same zone and record.
StartConc(p) ==
    /\ inv[p].pc = "idle"
    /\ \E zone \in Zones, record \in IdLessPool :
          /\ \A q \in ConcProcs :
                inv[q].op # "none" =>
                   inv[q].zone = zone /\ inv[q].records = <<record>>
          /\ inv' = [inv EXCEPT ![p] = Entered("Set", "get", zone, <<record>>)]
    /\ UNCHANGED <<registrar, nextId, calls>>

NextConc ==
    \E p \in ConcProcs :
       \/ StartConc(p)
       \/ GetRecordsCall(p)
       \/ SetClassify(p)
       \/ SetCallAppend(p)
       \/ AppendCall(p)
       \/ AppendReturn(p)
       \/ UpdateCall(p)
       \/ SetReturn(p)

SpecConc == InitConc /\ [][NextConc]_vars

\* C20: two SetRecords with the same zone and the same single record
\* without ID, run at once, never both create the record: when both have
\* succeeded at most one create request was sent, and the registrar holds
\* at most one record of that Type and Name more than when the first of
\* them was entered.
C20_NeverBothCreate ==
    (\A p \in DOMAIN inv : inv[p].op = "Set" /\ Succeeded(inv[p])) =>
       \A p \in DOMAIN inv :
          LET s == inv[p] IN
          s.mark = 0 =>
             /\ Len(SelectSeq(calls, LAMBDA c : c.kind = "create")) <= 1
             /\ Len(WithKey(s.zone, registrar, s.records[1]))
                   <= Len(WithKey(s.zone, s.before, s.records[1])) + 1

====
